---- MODULE Spec2Model ----
(***************************************************************************)
(* A model of src/src/App.tsx: the TivoliWheel React component (the wheel  *)
(* layout of createWheel, the resolver getWinningItem, the spin/animate    *)
(* loop) and the WheelPage parent that owns the label list.                *)
(*                                                                         *)
(* Angles are exact: one full turn (2*pi) is TwoPi angle units, and TwoPi  *)
(* is a multiple of every divisor the code divides a turn by in the        *)
(* modelled range, so that every angle the code computes is an integer.    *)
(* Time is Date.now() in milliseconds since the page was opened.           *)
(*                                                                         *)
(* React is modelled by what it guarantees: a state setter records the new *)
(* value (isSpinning, winningItem); the closures and the DOM see it only   *)
(* after a render (rendered).  A click handler's updates are rendered      *)
(* before the next event; updates made in an animation-frame callback are  *)
(* rendered by a later step (Render).                                      *)
(***************************************************************************)
EXTENDS Integers, Sequences, FiniteSets, TLC

VARIABLES
    appRef,             \* appRef.current is set (the PIXI application exists)
    recipes,            \* the recipes prop of the last render (WheelPage state)
    isSpinning,         \* React state isSpinning (latest value set)
    winningItem,        \* React state winningItem (latest value set)
    rendered,           \* the state values the last render captured
    wheelContainerRef,  \* wheelContainerRef.current: a wheel id, 0 for null
    tickerRef,          \* tickerRef.current: a ticker id, 0 for null
    stage,              \* appRef.current.stage.children, in order
    wheels,             \* the PIXI.Containers made by createWheel that are
                        \* still referenced, by id
    rafQueue,           \* animate callbacks scheduled by requestAnimationFrame
    now,                \* Date.now()
    clicked,            \* the last event was a click on the Spin button
    everDone,           \* some spin has stored its winner
    resolved,           \* how often the spin started last has stored a winner
    probe               \* direct calls of createWheel's layout and getWinningItem

machine == <<appRef, recipes, isSpinning, winningItem, rendered,
             wheelContainerRef, tickerRef, stage, wheels, rafQueue, now>>
vars == <<machine, clicked, everDone, resolved, probe>>

----------------------------------------------------------------------------
(* Bounds of the model *)

MaxN == 5           \* longest in-range label list given to the pure functions
RandDen == 2        \* Math.random() returns k/RandDen, k in 0..RandDen-1
MaxTicks == 3       \* Date.now() stays within MaxTicks clock steps
MaxWheels == 2      \* createWheel builds at most this many containers

(* Program constants *)

minSectors == 2         \* createWheel: recipes.length < 2
maxSectors == 100       \* createWheel: recipes.length > 100
spinDuration == 10000   \* spin: const spinDuration = 10000
baseRotations == 10     \* spin: 10 + Math.random()

COLORS == <<16738155, 5164484, 4569041, 16752762, 10017992,
            16151168, 12610692, 7101307, 3497085, 16298389>>

Null == "null"              \* JavaScript null
TypeError == "TypeError"    \* reading .name of undefined throws

----------------------------------------------------------------------------
(* Arithmetic *)

GCD(a, b) ==
    LET gcd[x \in Nat, y \in Nat] == IF y = 0 THEN x ELSE gcd[y, x % y]
    IN gcd[a, b]

RECURSIVE LcmUpTo(_)
LcmUpTo(n) == IF n <= 1 THEN 1
              ELSE LET l == LcmUpTo(n - 1) IN (l * n) \div GCD(l, n)

Abs(a) == IF a >= 0 THEN a ELSE -a

\* Date.now() is sampled every half spin duration
ClockStep == spinDuration \div 2
MaxNow == MaxTicks * ClockStep
FramesPerSpin == spinDuration \div ClockStep

\* Math.PI * 2, in angle units
TwoPi == 4 * RandDen * (FramesPerSpin * FramesPerSpin * FramesPerSpin)
           * LcmUpTo(MaxN)

\* JavaScript a % b for b > 0: the result has the sign of the dividend
JsRem(a, b) == IF a >= 0 THEN a % b ELSE -((-a) % b)

\* a rational num/den, den > 0, in lowest terms
Ratio(num, den) ==
    LET lowest[n \in Int, d \in Nat] ==
            [num |-> n \div GCD(Abs(n), d), den |-> d \div GCD(Abs(n), d)]
    IN lowest[num, den]

----------------------------------------------------------------------------
(* Labels *)

Alphabet == <<"A", "B", "C", "D", "E", "F", "G", "H", "I", "J">>

Recipe(i) == [name |-> Alphabet[((i - 1) % Len(Alphabet)) + 1]]

\* the list of the first n recipes
RecipeList(n) == [i \in 1..n |-> Recipe(i)]

RECURSIVE Orderings(_)
Orderings(s) ==
    IF Len(s) = 0 THEN {<<>>}
    ELSE UNION {{<<s[i]>> \o p :
                   p \in Orderings(SubSeq(s, 1, i - 1) \o SubSeq(s, i + 1, Len(s)))}
                : i \in 1..Len(s)}

Reverse(s) == [i \in 1..Len(s) |-> s[Len(s) + 1 - i]]

----------------------------------------------------------------------------
(* createWheel: the sector layout (recipes.forEach, lines 40-67) *)

startAngle(index, n) == (index * TwoPi) \div n

\* a slip in the end angle: the sector count is taken one too large
endAngle_shortSector(index, n) == ((index + 1) * TwoPi) \div (n + 1)

endAngle(index, n) == ((index + 1) * TwoPi) \div n

Slices(rs) ==
    [i \in 1..Len(rs) |->
        [startAngle |-> startAngle(i - 1, Len(rs)),
         endAngle   |-> endAngle(i - 1, Len(rs)),
         fill       |-> COLORS[((i - 1) % Len(COLORS)) + 1],
         text       |-> rs[i].name]]

\* createWheel returns early for these label counts
InvalidLabelCount(rs) == Len(rs) < minSectors \/ Len(rs) > maxSectors

----------------------------------------------------------------------------
(* getWinningItem (lines 104-123) *)

\* a slip: the rotation is used without normalizing it
normalizedRotation_raw(finalRotation) == finalRotation

normalizedRotation(finalRotation) ==
    JsRem(JsRem(finalRotation, TwoPi) + TwoPi, TwoPi)

\* 3 * Math.PI / 2
topPosition == (3 * TwoPi) \div 4

\* a slip: the rotation is added to the pointer angle, not subtracted
slicesFromTop_signSwapped(finalRotation, n) ==
    (JsRem(topPosition + normalizedRotation(finalRotation) + TwoPi, TwoPi) * n)
        \div TwoPi

\* a slip: the difference is not brought back to a positive angle
slicesFromTop_noWrap(finalRotation, n) ==
    (JsRem(topPosition - normalizedRotation(finalRotation), TwoPi) * n)
        \div TwoPi

\* Math.floor(x / sliceAngle) with sliceAngle = TwoPi / n, computed as
\* floor(x * n / TwoPi) so that it is exact for every n
slicesFromTop(finalRotation, n) ==
    (JsRem(topPosition - normalizedRotation(finalRotation) + TwoPi, TwoPi) * n)
        \div TwoPi

\* a slip: the sector after the one under the pointer is taken
winningIndex_next(finalRotation, n) == JsRem(slicesFromTop(finalRotation, n) + 1, n)

winningIndex(finalRotation, n) == JsRem(slicesFromTop(finalRotation, n), n)

getWinningItem(rs, finalRotation) ==
    IF Len(rs) = 0 THEN Null
    ELSE LET k == winningIndex(finalRotation, Len(rs)) IN
         IF k \in 0..(Len(rs) - 1) THEN rs[k + 1].name ELSE TypeError

----------------------------------------------------------------------------
(* spin / animate (lines 125-156) *)

\* 10 + Math.random(), as a rational
MaxRotationsSet == {Ratio(baseRotations * RandDen + k, RandDen) : k \in 0..(RandDen - 1)}

\* Math.min(elapsedTime / spinDuration, 1)
progress(startTime, t) ==
    IF t - startTime >= spinDuration THEN Ratio(1, 1)
    ELSE Ratio(t - startTime, spinDuration)

\* a slip: the leading "1 -" is lost
easeOut_noComplement(t) ==
    LET cubic[num \in Int, den \in Nat] ==
            Ratio((den - num) * (den - num) * (den - num), den * den * den)
    IN cubic[t.num, t.den]

\* 1 - Math.pow(1 - t, 3)
easeOut(t) ==
    LET cubic[num \in Int, den \in Nat] ==
            Ratio(den * den * den - (den - num) * (den - num) * (den - num),
                  den * den * den)
    IN cubic[t.num, t.den]

\* maxRotations * Math.PI * 2 * easeOut(progress)
rotationAt(maxRotations, p) ==
    LET e == easeOut(p) IN
    (maxRotations.num * e.num * (TwoPi \div (maxRotations.den * e.den)))

----------------------------------------------------------------------------
(* The component *)

\* the label lists a parent passes as the recipes prop: the lengths on both
\* sides of the two ends of createWheel's range check (with the orderings
\* that randomizeRecipes makes of them)
PropLists == {RecipeList(n) : n \in {0, minSectors - 1, minSectors, maxSectors + 1}}

\* [...recipes].sort(() => Math.random() - 0.5): some ordering of the list
\* (for a list too long to enumerate: the list itself or its reversal)
Shuffles(rs) == IF Len(rs) <= MaxN THEN Orderings(rs) ELSE {rs, Reverse(rs)}

NoTick == [called |-> FALSE, maxRotations |-> [num |-> 0, den |-> 1], elapsed |-> 0,
           progress |-> [num |-> 0, den |-> 1], eased |-> [num |-> 0, den |-> 1],
           rotation |-> 0]

NoProbe == [recipes |-> <<>>, sectors |-> <<>>, rotation |-> 0, index |-> 0,
            result |-> "none", tick |-> NoTick]

\* a slip: the render does not see that a spin is running
Render_notSpinning(spinning, item) == [isSpinning |-> FALSE, winningItem |-> item]

\* what a render captures of the component's state: the values its closures
\* (spin) and its JSX (the button, the winner paragraph) read
Render(spinning, item) == [isSpinning |-> spinning, winningItem |-> item]

\* <button disabled={isSpinning || recipes.length === 0}>, as last rendered
buttonDisabled == rendered.isSpinning \/ Len(recipes) = 0

\* a slip: a winner that is shown blocks the next spin as well
spinReturnsEarly_winnerShown ==
    \/ wheelContainerRef = 0
    \/ tickerRef = 0
    \/ Len(recipes) = 0
    \/ rendered.isSpinning
    \/ rendered.winningItem # Null

\* the guard of spin (line 126), with the values its closure captured
spinReturnsEarly ==
    \/ wheelContainerRef = 0
    \/ tickerRef = 0
    \/ Len(recipes) = 0
    \/ rendered.isSpinning

\* stage.removeChild(child)
removeChild(children, child) == SelectSeq(children, LAMBDA c : c # child)

Tickers(children) == Len(SelectSeq(children, LAMBDA c : c.kind = "ticker"))

\* the containers of ws that the ref or a scheduled animate closure still
\* holds; the others are unreachable and are dropped
Referenced(ws, ref, queue) ==
    [id \in {i \in DOMAIN ws : i = ref \/ \E k \in DOMAIN queue : queue[k].wheel = i}
        |-> ws[id]]

\* createWheel (lines 25-79), called by the effect of a render whose recipes
\* is rs, when appRef.current is app
createWheel(app, rs) ==
    IF ~app \/ InvalidLabelCount(rs)
    THEN UNCHANGED <<wheelContainerRef, tickerRef, stage, wheels>>
    ELSE LET wheel == Tickers(stage) + 1
             ticker == Tickers(stage) + 1
             kept == IF wheelContainerRef # 0
                     THEN removeChild(stage, [kind |-> "wheel", id |-> wheelContainerRef])
                     ELSE stage
         IN /\ wheels' = Referenced((wheel :> [slices |-> Slices(rs), rotation |-> 0])
                                        @@ wheels, wheel, rafQueue)
            /\ wheelContainerRef' = wheel
            /\ stage' = kept \o <<[kind |-> "wheel", id |-> wheel],
                                   [kind |-> "ticker", id |-> ticker]>>
            /\ tickerRef' = ticker

\* a slip: progress <= 1
inProgress_inclusive(p) == p.num <= p.den

\* a slip: progress >= 1
inProgress_inverted(p) == p.num >= p.den

\* if (progress < 1) (line 146)
inProgress(p) == p.num < p.den

\* a slip: the resolver reads the list of the latest render
resolverLabels_latest(a) == recipes

\* the recipes of the getWinningItem that the closure of animate holds: the
\* one of the render whose spin was clicked (lines 123, 149, 156)
resolverLabels(a) == a.recipes

\* one run of animate (lines 136-153) for the loop a, after the state
\* setters that ran before it left isSpinning = spinning, winningItem = item
\* and the count of stored winners at count
animate(a, ws, queue, spinning, item, count) ==
    \E p \in {progress(a.startTime, now)} :
    \E rotation \in {rotationAt(a.maxRotations, p)} :
    \E winner \in {getWinningItem(resolverLabels(a), rotation)} :
    LET next == IF inProgress(p) THEN Append(queue, a) ELSE queue
    IN /\ wheels' = Referenced([ws EXCEPT ![a.wheel].rotation = rotation],
                               wheelContainerRef, next)
       /\ rafQueue' = next
       /\ IF inProgress(p)
          THEN /\ isSpinning' = spinning
               /\ winningItem' = item
               /\ resolved' = count
               /\ UNCHANGED everDone
          ELSE /\ IF winner = TypeError
                  THEN isSpinning' = spinning /\ winningItem' = item
                       /\ resolved' = count
                  ELSE isSpinning' = FALSE /\ winningItem' = winner
                       /\ resolved' = count + 1
               /\ everDone' = (everDone \/ winner # TypeError)

Init ==
    /\ appRef = FALSE
    /\ recipes \in PropLists
    /\ isSpinning = FALSE
    /\ winningItem = Null
    /\ rendered = Render(FALSE, Null)
    /\ wheelContainerRef = 0
    /\ tickerRef = 0
    /\ stage = <<>>
    /\ wheels = <<>>
    /\ rafQueue = <<>>
    /\ now = 0
    /\ clicked = FALSE
    /\ everDone = FALSE
    /\ resolved = 0
    /\ probe = NoProbe

\* the effects of the first render (lines 81-102): the application is made,
\* then createWheel runs
Mount ==
    /\ ~appRef
    /\ appRef' = TRUE
    /\ createWheel(TRUE, recipes)
    /\ clicked' = FALSE
    /\ UNCHANGED <<recipes, isSpinning, winningItem, rendered, rafQueue, now, everDone, resolved, probe>>

\* a click on the Spin button: nothing if the button is disabled, else
\* spin (lines 125-156) with its first animate call, then the render of the
\* state it set
ClickSpin ==
    /\ appRef
    /\ clicked' = TRUE
    /\ IF buttonDisabled \/ spinReturnsEarly
       THEN UNCHANGED <<isSpinning, winningItem, rendered, wheels, rafQueue, everDone,
                        resolved>>
       ELSE \E maxRotations \in MaxRotationsSet :
               /\ animate([wheel |-> wheelContainerRef, maxRotations |-> maxRotations,
                           startTime |-> now, recipes |-> recipes],
                          wheels, rafQueue, TRUE, Null, 0)
               /\ rendered' = Render(isSpinning', winningItem')
    /\ UNCHANGED <<appRef, recipes, wheelContainerRef, tickerRef, stage, now, probe>>

\* the browser runs the oldest scheduled animate callback
AnimationFrame ==
    /\ rafQueue # <<>>
    /\ animate(Head(rafQueue), wheels, Tail(rafQueue), isSpinning, winningItem,
               resolved)
    /\ clicked' = FALSE
    /\ UNCHANGED <<appRef, recipes, rendered, wheelContainerRef, tickerRef, stage,
                   now, probe>>

\* React re-renders the component after state updates made outside a click
ReRender ==
    /\ appRef
    /\ rendered # Render(isSpinning, winningItem)
    /\ rendered' = Render(isSpinning, winningItem)
    /\ clicked' = FALSE
    /\ UNCHANGED <<appRef, recipes, isSpinning, winningItem, wheelContainerRef,
                   tickerRef, stage, wheels, rafQueue, now, everDone, resolved, probe>>

\* the parent renders the component with the list rs: the render captures
\* the state, and the effect of the new createWheel runs
RenderWith(rs) ==
    /\ appRef
    /\ Tickers(stage) < MaxWheels \/ InvalidLabelCount(rs)
    /\ recipes' = rs
    /\ rendered' = Render(isSpinning, winningItem)
    /\ createWheel(appRef, rs)
    /\ UNCHANGED <<appRef, isSpinning, winningItem, rafQueue, now, everDone, resolved, probe>>

\* a click on Randomize: randomizeRecipes (lines 179-182)
randomizeRecipes ==
    /\ \E shuffled \in Shuffles(recipes) : RenderWith(shuffled)
    /\ clicked' = FALSE

\* a parent gives the component another recipes prop (TivoliWheelProps)
ReplaceRecipes ==
    /\ \E rs \in PropLists : rs # recipes /\ RenderWith(rs)
    /\ clicked' = FALSE

\* Date.now() is later at the next event
ClockAdvance ==
    /\ now + ClockStep <= MaxNow
    /\ now' = now + ClockStep
    /\ clicked' = FALSE
    /\ UNCHANGED <<appRef, recipes, isSpinning, winningItem, rendered,
                   wheelContainerRef, tickerRef, stage, wheels, rafQueue, everDone, resolved, probe>>

\* the system clock is set back
ClockSetBack ==
    /\ now - ClockStep >= 0
    /\ now' = now - ClockStep
    /\ clicked' = FALSE
    /\ UNCHANGED <<appRef, recipes, isSpinning, winningItem, rendered,
                   wheelContainerRef, tickerRef, stage, wheels, rafQueue, everDone, resolved, probe>>

Next ==
    \/ Mount
    \/ ClickSpin
    \/ AnimationFrame
    \/ ReRender
    \/ randomizeRecipes
    \/ ReplaceRecipes
    \/ ClockAdvance
    \/ ClockSetBack

Spec == Init /\ [][Next]_vars

\* a Spin click for which the clock of the model can still reach the end of
\* the spin it starts; a click that the button or the guard rejects is free
ClickSpinInTime ==
    /\ now + spinDuration <= MaxNow \/ buttonDisabled \/ spinReturnsEarly
    /\ ClickSpin

\* the component under a clock that never goes back
NextFair ==
    \/ Mount
    \/ ClickSpinInTime
    \/ AnimationFrame
    \/ ReRender
    \/ randomizeRecipes
    \/ ReplaceRecipes
    \/ ClockAdvance

\* Date.now() keeps advancing, the browser keeps delivering the frames asked
\* for by requestAnimationFrame, and React renders a state it was given
SpecFair ==
    /\ Init
    /\ [][NextFair]_vars
    /\ WF_vars(ClockAdvance)
    /\ WF_vars(AnimationFrame)
    /\ WF_vars(ReRender)

----------------------------------------------------------------------------
(* The pure functions, called directly: the sector layout of createWheel    *)
(* and getWinningItem, for one label list and every rotation of a grid that *)
(* holds every threshold of getWinningItem and a point between each two.    *)

ProbeLists == {RecipeList(n) : n \in 0..MaxN} \cup {RecipeList(maxSectors + 1)}

ProbeStep == TwoPi \div (8 * LcmUpTo(MaxN))

ProbeRotations == {k * ProbeStep : k \in (-(TwoPi \div ProbeStep))..(2 * (TwoPi \div ProbeStep))}

InitProbe ==
    /\ appRef = FALSE
    /\ recipes = <<>>
    /\ isSpinning = FALSE
    /\ winningItem = Null
    /\ rendered = Render(FALSE, Null)
    /\ wheelContainerRef = 0
    /\ tickerRef = 0
    /\ stage = <<>>
    /\ wheels = <<>>
    /\ rafQueue = <<>>
    /\ now = 0
    /\ clicked = FALSE
    /\ everDone = FALSE
    /\ resolved = 0
    /\ \E rs \in ProbeLists : probe = [NoProbe EXCEPT !.recipes = rs]

\* the layout part of createWheel (lines 26, 40-49) for the probed list
ProbeCreateWheel ==
    /\ probe.sectors = <<>>
    /\ ~InvalidLabelCount(probe.recipes)
    /\ probe' = [probe EXCEPT !.sectors = Slices(probe.recipes)]
    /\ UNCHANGED <<machine, clicked, everDone, resolved>>

\* one call getWinningItem(r) for the probed list; the index is recorded
\* where the code computes one
ProbeGetWinningItem ==
    /\ probe.result = "none"
    /\ ~probe.tick.called
    /\ \E r \in ProbeRotations :
          probe' = [probe EXCEPT
                      !.rotation = r,
                      !.index = IF Len(probe.recipes) = 0 THEN 0
                                ELSE winningIndex(r, Len(probe.recipes)),
                      !.result = getWinningItem(probe.recipes, r)]
    /\ UNCHANGED <<machine, clicked, everDone, resolved>>

\* the elapsed times of the probed ticks: every quarter of the duration,
\* from one duration before the start to half a duration after the end
ProbeElapsed ==
    {k * (ClockStep \div 2) : k \in (-(2 * FramesPerSpin))..(3 * FramesPerSpin)}

\* the arithmetic of one run of animate (lines 137-144), at a time that is
\* elapsed after startTime, for one value of maxRotations
ProbeAnimate ==
    /\ probe.result = "none"
    /\ ~probe.tick.called
    /\ \E maxRotations \in MaxRotationsSet, elapsed \in ProbeElapsed :
          probe' = [probe EXCEPT
                      !.tick = [called |-> TRUE,
                                maxRotations |-> maxRotations,
                                elapsed |-> elapsed,
                                progress |-> progress(0, elapsed),
                                eased |-> easeOut(progress(0, elapsed)),
                                rotation |-> rotationAt(maxRotations,
                                                        progress(0, elapsed))]]
    /\ UNCHANGED <<machine, clicked, everDone, resolved>>

NextProbe ==
    \/ ProbeCreateWheel
    \/ ProbeGetWinningItem
    \/ ProbeAnimate

SpecProbe == InitProbe /\ [][NextProbe]_vars

----------------------------------------------------------------------------
(* Properties of the pure functions, checked under SpecProbe *)

ProbeCalled == probe.result # "none"
ProbePainted == probe.sectors # <<>>
ProbeN == Len(probe.recipes)

\* the angle of the wheel that the rotation probe.rotation brings under the
\* pointer at 3*pi/2
AngleUnderPointer == ((3 * TwoPi) \div 4) - probe.rotation

\* C1: for every label count N in [2,100], every sector i and every angle a
\* in the span that createWheel paints for sector i (its start included, its
\* end excluded), getWinningItem(3*pi/2 - a) returns the name of recipes[i].
C1_ConsistencyLaw ==
    (ProbeCalled /\ ProbePainted) =>
        \A i \in 1..Len(probe.sectors) :
            (/\ probe.sectors[i].startAngle <= AngleUnderPointer
             /\ AngleUnderPointer < probe.sectors[i].endAngle)
            => /\ probe.result = probe.recipes[i].name
               /\ probe.result = probe.sectors[i].text

C1_Witness ==
    /\ ProbeCalled /\ ProbePainted
    /\ ProbeN = MaxN
    /\ probe.sectors[MaxN].startAngle < AngleUnderPointer
    /\ AngleUnderPointer < probe.sectors[MaxN].endAngle
    /\ probe.result = probe.recipes[MaxN].name

\* C5: getWinningItem never returns a label for a label sequence whose
\* length is below 2 or above 100.
C5_InvalidCountNeverResolves ==
    (ProbeCalled /\ InvalidLabelCount(probe.recipes)) =>
        \A i \in 1..ProbeN : probe.result # probe.recipes[i].name

\* C7: for every N in [2,100] and every rotation, the sector index computed
\* by getWinningItem is in 0..N-1, and the indexing does not throw.
C7_IndexInRange ==
    (ProbeCalled /\ ~InvalidLabelCount(probe.recipes)) =>
        /\ 0 <= probe.index
        /\ probe.index < ProbeN
        /\ probe.result # TypeError

C7_Witness ==
    /\ ProbeCalled
    /\ ProbeN = MaxN
    /\ probe.rotation < 0
    /\ probe.index = MaxN - 1

\* C8: for every N in [2,100] and every rotation r, getWinningItem(r) and
\* getWinningItem(r + 2*pi) return the same label, and a negative rotation
\* resolves to the same label as the angle of [0, 2*pi) it is congruent to.
C8_Periodic ==
    (ProbeCalled /\ ~InvalidLabelCount(probe.recipes)) =>
        /\ probe.result = getWinningItem(probe.recipes, probe.rotation + TwoPi)
        /\ probe.result = getWinningItem(probe.recipes, probe.rotation % TwoPi)

C8_Witness ==
    /\ ProbeCalled
    /\ ProbeN = MaxN
    /\ probe.rotation < -(TwoPi \div 2)
    /\ probe.result = getWinningItem(probe.recipes, probe.rotation + 2 * TwoPi)
    /\ probe.result = probe.recipes[2].name

\* C9: for every N in [2,100] the sectors laid out by createWheel tile
\* [0, 2*pi) in label order: the first starts at 0, each ends where the next
\* starts, the last ends at 2*pi, and each spans 2*pi/N.
C9_PartitionCoverage ==
    ProbePainted =>
        /\ Len(probe.sectors) = ProbeN
        /\ probe.sectors[1].startAngle = 0
        /\ \A i \in 1..(ProbeN - 1) :
              probe.sectors[i].endAngle = probe.sectors[i + 1].startAngle
        /\ probe.sectors[ProbeN].endAngle = TwoPi
        /\ \A i \in 1..ProbeN :
              /\ (probe.sectors[i].endAngle - probe.sectors[i].startAngle) * ProbeN = TwoPi
              /\ probe.sectors[i].text = probe.recipes[i].name

C9_Witness ==
    /\ ProbePainted
    /\ ProbeN = MaxN
    /\ probe.sectors[MaxN].startAngle = ((MaxN - 1) * TwoPi) \div MaxN

ProbeExample ==
    /\ ProbeCalled
    /\ probe.recipes = RecipeList(4)
    /\ probe.rotation = (3 * TwoPi) \div 4

\* C10 as stated: for labels [A,B,C,D], getWinningItem(3*pi/2) returns D.
C10_ExampleAsStated == ProbeExample => probe.result = "D"

\* C10, amended: for labels [A,B,C,D], getWinningItem(3*pi/2) returns A,
\* the label of sector 0 (index 0).
C10_Example == ProbeExample => (probe.result = "A" /\ probe.index = 0)

C10_Witness == ProbeExample /\ probe.result = "A"

\* the rationals a <= b
Leq(a, b) == a.num * b.den <= b.num * a.den

\* the progress of the probed tick lies in [0, 1]
ProbeInUnit == Leq(Ratio(0, 1), probe.tick.progress) /\ Leq(probe.tick.progress, Ratio(1, 1))

----------------------------------------------------------------------------
(* Properties of the component, checked under Spec *)

\* a live animation loop is one scheduled animate callback: a run of animate
\* either schedules the next one or ends the loop
LiveLoops == Len(rafQueue)

\* the start request of this step began a spin: the status is Spinning, the
\* winner is cleared and one animation loop, made at this step with the
\* current time, a fresh total rotation and the wheel on the stage, is live
StartAccepted ==
    /\ isSpinning' /\ rendered'.isSpinning
    /\ winningItem' = Null
    /\ Len(rafQueue') = 1
    /\ rafQueue'[1].startTime = now
    /\ rafQueue'[1].maxRotations \in MaxRotationsSet
    /\ rafQueue'[1].wheel = wheelContainerRef
    /\ rafQueue'[1].recipes = recipes
    /\ wheels'[wheelContainerRef].rotation = 0

\* C2: in every reachable state, under every interleaving of Spin clicks,
\* re-renders, label changes and animation frames, at most one animation
\* loop is live.
C2_AtMostOneSpin == LiveLoops <= 1

\* a loop is live, and a Spin click came after its start
C2_Witness ==
    /\ LiveLoops = 1
    /\ clicked
    /\ rafQueue[1].startTime # now
    /\ Tickers(stage) > 1

\* C3: a start request made while the status is Spinning (as set, or as last
\* rendered) changes nothing: the loop (its startTime and total rotation),
\* the rotation of every wheel, the status and the winner are as before, and
\* no animation is scheduled.
C3_RejectedWhileSpinning ==
    [][((isSpinning \/ rendered.isSpinning) /\ clicked') => UNCHANGED machine]_vars

C3_Witness ==
    /\ clicked
    /\ isSpinning
    /\ LiveLoops = 1
    /\ rafQueue[1].startTime < now
    /\ wheels[rafQueue[1].wheel].rotation > 0

\* C4: once a spin has reported done (the winner is stored and rendered),
\* the status is not Spinning, and the next start request, made with a label
\* count in [2,100], is accepted: the status is Spinning again and a new
\* animation begins with a fresh startTime and total rotation.
C4_StartAfterDone ==
    [][/\ winningItem' # Null => ~isSpinning'
       /\ rendered'.winningItem # Null => ~rendered'.isSpinning
       /\ (/\ rendered.winningItem # Null
           /\ ~InvalidLabelCount(recipes)
           /\ clicked') => StartAccepted]_vars

\* a spin was done, and the click that came last began the running one
C4_Witness ==
    /\ everDone
    /\ clicked
    /\ isSpinning
    /\ LiveLoops = 1
    /\ rafQueue[1].startTime = now
    /\ ~InvalidLabelCount(recipes)

\* C6: a start request made when the label count is outside [2,100] begins
\* no spin: it schedules no animation and does not set the status.
C6_NoSpinWithInvalidCount ==
    [][(InvalidLabelCount(recipes) /\ clicked') =>
          (rafQueue' = rafQueue /\ isSpinning' = isSpinning)]_vars

\* the rotation at which the loop a ends: progress 1
FinalRotation(a) == rotationAt(a.maxRotations, Ratio(1, 1))

\* C11: between one accepted start and the next the winner is stored at most
\* once; it is stored only by a tick whose progress has reached 1; a tick
\* whose progress has reached 1 never leaves its loop live; and once the
\* winner is stored no animate callback of that spin is scheduled.
C11_ResolvedOnce ==
    [][/\ resolved' <= 1
       /\ resolved' = 1 => rafQueue' = <<>>
       /\ resolved' > resolved =>
             /\ rafQueue # <<>>
             /\ progress(Head(rafQueue).startTime, now) = Ratio(1, 1)
             /\ winningItem' # Null
       /\ \A k \in DOMAIN rafQueue' :
             wheels'[rafQueue'[k].wheel].rotation # FinalRotation(rafQueue'[k])]_vars

\* the spin started last stored its winner once, its loop is gone, and the
\* result is on the page
C11_Witness ==
    /\ resolved = 1
    /\ rafQueue = <<>>
    /\ ~isSpinning
    /\ winningItem # Null
    /\ rendered.winningItem = winningItem

\* C12: a stored winner, in the state and on the page, stays the same through
\* every step (ticks, re-renders, rejected start requests, label
\* replacements) other than an accepted start, which clears it.
C12_WinnerStable ==
    [][/\ (winningItem # Null /\ winningItem' # winningItem) =>
             (clicked' /\ StartAccepted)
       /\ (rendered.winningItem # Null /\ rendered'.winningItem # rendered.winningItem) =>
             (clicked' /\ StartAccepted /\ rendered'.winningItem = Null)]_vars

\* a winner is stored and shown, the label list has been replaced by the
\* empty one, and the start request that came last was rejected
C12_Witness ==
    /\ winningItem # Null
    /\ rendered.winningItem = winningItem
    /\ ~isSpinning
    /\ clicked
    /\ Len(recipes) = 0
    /\ rafQueue = <<>>

\* C13: when the clock keeps advancing and the frames asked for are
\* delivered, every state whose status is Spinning is followed by a state
\* whose status is not Spinning and whose winner is a label; the same holds
\* of the status and the winner on the page.
C13_SpinTerminates ==
    /\ isSpinning ~> (~isSpinning /\ winningItem # Null)
    /\ rendered.isSpinning ~> (~rendered.isSpinning /\ rendered.winningItem # Null)

\* a spin ran its whole duration and its winner is on the page
C13_Witness ==
    /\ ~rendered.isSpinning
    /\ rendered.winningItem # Null
    /\ resolved = 1
    /\ now >= spinDuration

\* C14: whenever the status is Spinning the winner is null, in the state and
\* on the page; a step that starts a loop leaves the winner null; and a
\* winner is stored only by a tick, of a live loop, whose progress is 1.
C14_NoPartialResolution ==
    [][/\ isSpinning' => winningItem' = Null
       /\ rendered'.isSpinning => rendered'.winningItem = Null
       /\ (clicked' /\ rafQueue' # rafQueue) =>
             (winningItem' = Null /\ rendered'.winningItem = Null)
       /\ (winningItem' # Null /\ winningItem' # winningItem) =>
             /\ ~clicked'
             /\ rafQueue # <<>>
             /\ progress(Head(rafQueue).startTime, now) = Ratio(1, 1)]_vars

\* a second spin is running: the winner of the one before is gone
C14_Witness ==
    /\ everDone
    /\ isSpinning /\ rendered.isSpinning
    /\ winningItem = Null /\ rendered.winningItem = Null
    /\ LiveLoops = 1
    /\ wheels[rafQueue[1].wheel].rotation > 0

\* the children of the stage of one kind
StageCount(kind) == Cardinality({i \in DOMAIN stage : stage[i].kind = kind})

\* C16: once createWheel has built a wheel, and after every later
\* (re)creation, the stage holds exactly one wheel container and exactly
\* one pointer marker.
C16_OneWheelOnePointer ==
    wheelContainerRef # 0 => (StageCount("wheel") = 1 /\ StageCount("ticker") = 1)

\* C17: at every tick, whatever time it samples (a time before startTime
\* included), the progress is within [0, 1], so the rotation animate sets
\* is within [0, maxRotations * 2*pi], with 10 <= maxRotations < 11.
C17_RotationInRange ==
    /\ \A w \in DOMAIN wheels :
          0 <= wheels[w].rotation /\ wheels[w].rotation < (baseRotations + 1) * TwoPi
    /\ \A k \in DOMAIN rafQueue :
          /\ Leq(Ratio(baseRotations, 1), rafQueue[k].maxRotations)
          /\ ~Leq(Ratio(baseRotations + 1, 1), rafQueue[k].maxRotations)
          /\ wheels[rafQueue[k].wheel].rotation <= FinalRotation(rafQueue[k])

\* the labels of the sectors that the wheel container shows at the pointer
\* (the angle 3*pi/2 of the stage), given its rotation
UnderPointer(wheel) ==
    LET a == (topPosition - wheel.rotation) % TwoPi
    IN {wheel.slices[i].text :
          i \in {j \in DOMAIN wheel.slices :
                   wheel.slices[j].startAngle <= a /\ a < wheel.slices[j].endAngle}}

\* the step stores the winner of a spin
SpinCompletes == isSpinning /\ ~isSpinning' /\ winningItem' # Null

\* C18: at the step that completes a spin, whatever came before it, the
\* wheel container on the stage is the one the loop has rotated, and the
\* winner stored is the label of the sector it shows at the pointer.
C18_WinnerIsOnStage ==
    [][SpinCompletes =>
          /\ Head(rafQueue).wheel = wheelContainerRef
          /\ UnderPointer(wheels'[wheelContainerRef]) = {winningItem'}]_vars

\* C19: the loop of a spin holds the label list that was current at the
\* start request, keeps it while it is live whatever list replaces it, and
\* the winner stored at completion is the one getWinningItem gives for that
\* list at the final rotation.
C19_ResolvedAgainstStartLabels ==
    [][/\ (clicked' /\ rafQueue' # rafQueue) => rafQueue'[1].recipes = recipes
       /\ (rafQueue # <<>> /\ rafQueue' # <<>> /\ ~clicked') =>
             Head(rafQueue').recipes = Head(rafQueue).recipes
       /\ SpinCompletes =>
             winningItem' = getWinningItem(Head(rafQueue).recipes,
                                          FinalRotation(Head(rafQueue)))]_vars

\* a winner was stored and is not rendered yet, so the last render, which
\* came with a new label list, was during the spin; the winner is not among
\* the labels of that list
C19_Witness ==
    /\ winningItem # Null
    /\ rendered.winningItem = Null
    /\ recipes # <<>>
    /\ \A i \in DOMAIN recipes : recipes[i].name # winningItem

====
